---------------------------- MODULE Spec2Model ----------------------------
(***************************************************************************)
(* Model of src/app.py: the inspection-report generators                   *)
(* (generate_pdf_report, generate_html_report) and the Streamlit submit    *)
(* handler that calls them.                                                *)
(*                                                                         *)
(* Texts are short ASCII tokens standing for the program's strings:        *)
(*   "fuhe" = "符合", "bufuhe" = "不符合", "wucixiang" = "無此項".         *)
(* Lengths are exact fractions <<n, d>> of a centimetre (reportlab's cm    *)
(* unit is a common factor of every length the code computes).             *)
(***************************************************************************)
EXTENDS Integers, Sequences, FiniteSets, TLC

VARIABLES
    HAS_FONT,       \* module-level font flag (line 52), fixed after start-up
    base_info,      \* metadata: sidebar widgets / generator argument
    sections_data,  \* list of sections, each an ordered dict label -> item
    photos,         \* list of uploaded photo streams (their blobs)
    captions,       \* list of caption strings
    pos,            \* read position of each photo stream
    pdf_doc,        \* last outcome of generate_pdf_report (None before a call)
    html_doc,       \* last outcome of generate_html_report (None before a call)
    calls,          \* generator invocations made by the latest step
    ui              \* widgets the latest script run put on the page

vars == <<HAS_FONT, base_info, sections_data, photos, captions, pos,
          pdf_doc, html_doc, calls, ui>>

---------------------------------------------------------------------------
(* Bounds of the model *)

MaxPhotos == 4

MaxCaptions == 2

MaxSections == 2

MaxItems == 2

MaxUploads == 1

MaxDim == 12

(* Program constants *)

W_max == 8

H_max == 10

\* Outcome of a generator call.  None: not called yet.
None == [status |-> "none"]

Returned(doc) == [status |-> "returned", doc |-> doc]

Raised(exc) == [status |-> "raised", exc |-> exc]

Results == {"fuhe", "bufuhe", "wucixiang"}

\* Texts a user can type.  "<b>" stands for any text whose markup
\* reportlab's Paragraph parser rejects (an unclosed tag).
Texts == {"", "a", "<b>"}

BadMarkup == {"<b>"}

---------------------------------------------------------------------------
(* Photo blobs.  data: the bytes of the upload; opens: PILImage.open       *)
(* identifies the file; loads: the pixel data decodes (convert/save);      *)
(* mode, w, h: what the decoded header says.                               *)

Blob(id, w, h, mode, opens, loads) ==
    [id |-> id, data |-> <<id, id + 100>>, w |-> w, h |-> h,
     mode |-> mode, opens |-> opens, loads |-> loads]

PhotoBlobs ==
    { Blob(1, 4, 3, "RGB", TRUE, TRUE),      \* landscape JPEG
      Blob(2, 1, 2, "RGBA", TRUE, TRUE),     \* tall PNG with alpha
      Blob(3, 0, 0, "none", FALSE, FALSE),   \* corrupt: open raises
      Blob(4, 3, 3, "RGB", TRUE, FALSE) }    \* truncated: load raises

SeqsUpTo(S, n) == UNION { [1..k -> S] : k \in 0..n }

---------------------------------------------------------------------------
(* Exact fractions for the float arithmetic of lines 169-176 *)

\* Denominators are positive.

FMul(f, g) == <<f[1] * g[1], f[2] * g[2]>>

FDiv(f, g) == <<f[1] * g[2], f[2] * g[1]>>

FGt(f, g) == f[1] * g[2] > g[1] * f[2]

---------------------------------------------------------------------------
(* reportlab's Paragraph(text, style): raises ValueError when the text's   *)
(* inline markup does not parse.                                           *)

ParagraphRaises(text) == text \in BadMarkup

\* text: the fragments of the paragraph's f-string
Paragraph(text, style) == [kind |-> "Paragraph", text |-> text, style |-> style]


EmptyCell == [kind |-> "str", text |-> ""]

---------------------------------------------------------------------------
(* Checklist sections.  A section is the ordered dict built by             *)
(* check_section: one entry per label, in insertion order.                 *)

Item(k, result) == [label |-> <<"label", k>>, standard |-> <<"standard", k>>,
                    result |-> result]

Section(results) == [k \in 1..Len(results) |-> Item(k, results[k])]

\* line 100 (PDF) and line 235 (HTML): five titles each
section_titles == <<"pdf_title_1", "pdf_title_2", "pdf_title_3",
                    "pdf_title_4", "pdf_title_5">>

titles == <<"html_title_1", "html_title_2", "html_title_3",
            "html_title_4", "html_title_5">>

---------------------------------------------------------------------------
(* generate_pdf_report, part C: the checklist table (lines 95-148)         *)

ResultCellUnlessPass(result) ==
    IF result # "fuhe"
    THEN Paragraph(<<"b", result>>, "fail_style")
    ELSE Paragraph(<<result>>, "normal_style")

\* lines 117-120: the paragraph of the result cell
ResultCell(result) ==
    IF result = "bufuhe"
    THEN Paragraph(<<"b", result>>, "fail_style")
    ELSE Paragraph(<<result>>, "normal_style")

\* lines 109-122: one table row per item of the section
ItemRow(item) ==
    <<Paragraph(<<"b", item.label, "grey", item.standard>>, "normal_style"),
      ResultCell(item.result)>>

\* lines 105-106: the section's title row
TitleRow(i) == <<Paragraph(<<"b", section_titles[i]>>, "normal_style"), EmptyCell>>

RECURSIVE TableRows(_, _)
\* lines 102-122, sections i..Len(sections)
TableRows(sections, i) ==
    IF i > Len(sections) THEN <<>>
    ELSE <<TitleRow(i)>>
         \o [k \in 1..Len(sections[i]) |-> ItemRow(sections[i][k])]
         \o TableRows(sections, i + 1)

\* lines 97-98
HeaderRow == <<Paragraph(<<"header_item">>, "normal_style"),
               Paragraph(<<"header_result">>, "normal_style")>>

\* table_data is a Python list: row r of the table is table_data[r + 1] here
TableData(sections) == <<HeaderRow>> \o TableRows(sections, 1)

\* line 146: the row of the next section's title
NextHeaderRowNoTitle(current_row, section) == current_row + Len(section)

NextHeaderRow(current_row, section) == current_row + Len(section) + 1

RECURSIVE SectionDirectives(_, _, _)
\* lines 139-146, sections i..Len(sections)
SectionDirectives(sections, i, current_row) ==
    IF i > Len(sections) THEN <<>>
    ELSE << [cmd |-> "BACKGROUND", from |-> <<0, current_row>>,
             to |-> <<1, current_row>>, arg |-> "lightgrey"],
            [cmd |-> "SPAN", from |-> <<0, current_row>>,
             to |-> <<1, current_row>>, arg |-> "none"] >>
         \o SectionDirectives(sections, i + 1,
                              NextHeaderRow(current_row, sections[i]))

\* lines 128-146.  The directives of lines 129-135 that address the whole
\* table or a column carry no row and are left out.
MainStyle(sections) ==
    << [cmd |-> "BACKGROUND", from |-> <<0, 0>>, to |-> <<1, 0>>,
        arg |-> "#0056b3"],
       [cmd |-> "TEXTCOLOR", from |-> <<0, 0>>, to |-> <<1, 0>>,
        arg |-> "white"] >>
    \o SectionDirectives(sections, 1, 1)

---------------------------------------------------------------------------
(* generate_pdf_report, part D: the photo pages (lines 151-212)            *)

CaptionTextPrevious(caps, idx) ==
    IF idx >= 1 /\ idx - 1 < Len(caps) THEN caps[idx] ELSE ""

\* lines 185 and 230: captions[idx] if idx < len(captions) else ""
\* (idx counts from 0; Python's captions[idx] is caps[idx + 1])
CaptionText(caps, idx) == IF idx < Len(caps) THEN caps[idx + 1] ELSE ""

ScaledSizeHeightOnly(img_width, img_height) ==
    LET aspect == <<img_height, img_width>>
        desired_width == <<W_max, 1>>
        desired_height == FMul(desired_width, aspect)
    IN  IF FGt(desired_height, <<H_max, 1>>)
        THEN [width |-> desired_width, height |-> <<H_max, 1>>]
        ELSE [width |-> desired_width, height |-> desired_height]

\* lines 168-176: the display size, in cm
ScaledSize(img_width, img_height) ==
    LET aspect == <<img_height, img_width>>
        desired_width == <<W_max, 1>>
        desired_height == FMul(desired_width, aspect)
    IN  IF FGt(desired_height, <<H_max, 1>>)
        THEN [width |-> FDiv(<<H_max, 1>>, aspect), height |-> <<H_max, 1>>]
        ELSE [width |-> desired_width, height |-> desired_height]

\* The statement of the try block (lines 162-195) that raises for this
\* photo, or "none".
PhotoRaises(photo, idx, caps) ==
    IF ~photo.opens THEN "open"                                \* line 162
    ELSE IF photo.mode # "RGB" /\ ~photo.loads THEN "convert"  \* line 165
    ELSE IF photo.w = 0 THEN "aspect"                          \* line 169
    ELSE IF ~photo.loads THEN "save"                           \* line 180
    ELSE IF ParagraphRaises(CaptionText(caps, idx)) THEN "caption" \* 186
    ELSE "none"

\* lines 178-189: the cell of a photo whose try block ran to its end
PhotoCell(photo, idx, caps) ==
    LET size == ScaledSize(photo.w, photo.h)
        rl_img == [kind |-> "Image",
                   src |-> [format |-> "JPEG", mode |-> "RGB",
                            pixels |-> photo.id],
                   width |-> size.width, height |-> size.height]
        caption_para == Paragraph(<<"photo", idx + 1, CaptionText(caps, idx)>>,
                                  "normal_style")
    IN  [kind |-> "cell", image |-> rl_img, spacer |-> "Spacer",
         caption |-> caption_para]

RECURSIVE PhotoLoop(_, _, _, _, _)
\* lines 160-197, photos idx..len(photos)-1
PhotoLoop(phs, caps, idx, temp_row, photo_rows) ==
    IF idx >= Len(phs) THEN [temp_row |-> temp_row, photo_rows |-> photo_rows]
    ELSE IF PhotoRaises(phs[idx + 1], idx, caps) # "none"
         THEN PhotoLoop(phs, caps, idx + 1, temp_row, photo_rows) \* except: pass
         ELSE LET row == Append(temp_row, PhotoCell(phs[idx + 1], idx, caps))
              IN  IF Len(row) = 2
                  THEN PhotoLoop(phs, caps, idx + 1, <<>>, Append(photo_rows, row))
                  ELSE PhotoLoop(phs, caps, idx + 1, row, photo_rows)

FlushRowNoPadding(temp_row, photo_rows) ==
    IF temp_row # <<>> THEN Append(photo_rows, temp_row) ELSE photo_rows

\* lines 199-201: the odd last photo gets an empty cell beside it
FlushRow(temp_row, photo_rows) ==
    IF temp_row # <<>>
    THEN Append(photo_rows, Append(temp_row, EmptyCell))
    ELSE photo_rows

\* lines 157-201
PhotoRows(phs, caps) ==
    LET loop == PhotoLoop(phs, caps, 0, <<>>, <<>>)
    IN  FlushRow(loop.temp_row, loop.photo_rows)

\* Where PIL leaves a stream: PILImage.open seeks to 0 and reads the header;
\* convert/save read the rest.
PdfPos(photo, idx, caps) ==
    IF PhotoRaises(photo, idx, caps) \in {"open", "aspect"}
    THEN 1 ELSE Len(photo.data)

---------------------------------------------------------------------------
(* generate_pdf_report (lines 57-217)                                      *)

\* The exception generate_pdf_report raises, or "none".  Labels, standards
\* and section titles are program constants that parse.
PdfRaises(info, sections) ==
    IF ParagraphRaises(info.project) THEN "ValueError"      \* line 77
    ELSE IF Len(sections) > Len(section_titles) THEN "IndexError" \* line 105
    ELSE "none"

generate_pdf_report(info, sections, phs, caps, has_font) ==
    IF PdfRaises(info, sections) # "none"
    THEN Raised(PdfRaises(info, sections))
    ELSE Returned(
      [font_name |-> IF has_font THEN "ChineseFont" ELSE "Helvetica",
       subtitle |-> Paragraph(<<"project", info.project>>, "sub_style"),
       data_info |-> << <<info.date, info.inspector>>,
                        <<info.weather, info.status>> >>,
       table_data |-> TableData(sections),
       main_style |-> MainStyle(sections),
       photo_heading |-> phs # <<>>,                       \* lines 152-155
       photo_rows |-> PhotoRows(phs, caps)])

\* The stream positions after generate_pdf_report
PdfStreams(info, sections, phs, caps, p) ==
    IF PdfRaises(info, sections) # "none" THEN p
    ELSE [i \in 1..Len(phs) |-> PdfPos(phs[i], i - 1, caps)]

---------------------------------------------------------------------------
(* generate_html_report (lines 222-249)                                    *)

\* read(): the bytes from the stream's position to its end
ReadFrom(data, p) == SubSeq(data, p + 1, Len(data))

b64encode(bytes) == [encoding |-> "base64", of |-> bytes]

HtmlPhotoBytesNoSeek(photo, p) == ReadFrom(photo.data, p)

\* lines 228-229: photo.seek(0); photo.read()
HtmlPhotoBytes(photo, p) == ReadFrom(photo.data, 0)

\* lines 225-232
ImgHtml(phs, caps, p) ==
    IF phs # <<>>
    THEN << [kind |-> "grid",
             cells |-> [i \in 1..Len(phs) |->
                          [src |-> b64encode(HtmlPhotoBytes(phs[i], p[i])),
                           cap |-> CaptionText(caps, i - 1)]]] >>
    ELSE <<>>

\* lines 239-240
HtmlItemRow(item) ==
    [kind |-> "item", label |-> item.label, standard |-> item.standard,
     color |-> IF item.result = "bufuhe" THEN "red" ELSE "black",
     result |-> item.result]

RECURSIVE RowsHtml(_, _)
\* lines 236-240, sections i..Len(sections)
RowsHtml(sections, i) ==
    IF i > Len(sections) THEN <<>>
    ELSE << [kind |-> "section", title |-> titles[i]] >>
         \o [k \in 1..Len(sections[i]) |-> HtmlItemRow(sections[i][k])]
         \o RowsHtml(sections, i + 1)

generate_html_report(info, sections, phs, caps, p) ==
    IF Len(sections) > Len(titles) THEN Raised("IndexError")  \* line 237
    ELSE Returned(
      [project |-> info.project, date |-> info.date,
       inspector |-> info.inspector,
       rows_html |-> RowsHtml(sections, 1),
       img_html |-> ImgHtml(phs, caps, p)])

\* The stream positions after generate_html_report: every stream is read
\* to its end, in the loop that comes before the rows.
HtmlStreams(phs, p) == [i \in 1..Len(phs) |-> Len(phs[i].data)]

---------------------------------------------------------------------------
(* The submit handler (lines 320-358), one Streamlit script run            *)

Widget(widget, arg, data) == [widget |-> widget, arg |-> arg, data |-> data]

InspectorIsPlaceholder(inspector) == inspector = "placeholder"

\* line 321: not inspector
InspectorMissing(inspector) == inspector = ""

submittedHtmlInTry(info, sects, files, caps, p, has_font) ==
    IF InspectorMissing(info.inspector)
    THEN [ui |-> <<Widget("error", "inspector_missing", None)>>,
          calls |-> <<>>, pdf |-> None, html |-> None, pos |-> p]
    ELSE
      LET pdf == generate_pdf_report(info, sects, files, caps, has_font)
          p1 == PdfStreams(info, sects, files, caps, p)
          html == generate_html_report(info, sects, files, caps, p1)
          head == <<Widget("success", "processed", None)>>
                  \o (IF ~has_font
                      THEN <<Widget("warning", "no_font", None)>> ELSE <<>>)
      IN  IF pdf.status = "raised"
          THEN [ui |-> head \o <<Widget("error", "pdf_error", pdf)>>,
                calls |-> <<"generate_pdf_report">>,
                pdf |-> pdf, html |-> None, pos |-> p1]
          ELSE [ui |-> head
                       \o <<Widget("download_button", "application/pdf", pdf),
                            Widget("download_button", "text/html", html)>>,
                calls |-> <<"generate_pdf_report", "generate_html_report">>,
                pdf |-> pdf, html |-> html, pos |-> HtmlStreams(files, p1)]

\* lines 320-358: what the run shows, which generators it calls and what
\* they return; pdf/html are None when the generator is not called.
submitted(info, sects, files, caps, p, has_font) ==
    IF InspectorMissing(info.inspector)
    THEN [ui |-> <<Widget("error", "inspector_missing", None)>>,   \* line 322
          calls |-> <<>>, pdf |-> None, html |-> None, pos |-> p]
    ELSE
      LET pdf == generate_pdf_report(info, sects, files, caps, has_font)
          p1 == PdfStreams(info, sects, files, caps, p)
          html == generate_html_report(info, sects, files, caps, p1)
          p2 == HtmlStreams(files, p1)
          head == <<Widget("success", "processed", None)>>       \* line 327
                  \o (IF ~has_font                               \* line 335
                      THEN <<Widget("warning", "no_font", None)>> ELSE <<>>)
          col1 == IF pdf.status = "returned"                     \* 338-347
                  THEN <<Widget("download_button", "application/pdf", pdf)>>
                  ELSE <<Widget("error", "pdf_error", pdf)>>
          col2 == IF html.status = "returned"                    \* 351-358
                  THEN <<Widget("download_button", "text/html", html)>>
                  ELSE <<Widget("exception", "uncaught", html)>>
      IN  [ui |-> head \o col1 \o col2,
           calls |-> <<"generate_pdf_report", "generate_html_report">>,
           pdf |-> pdf, html |-> html, pos |-> p2]

---------------------------------------------------------------------------
(* Inputs *)

\* lines 301-305: the five sections of the form have 3, 4, 3, 3, 3 items
FormItemCounts == <<3, 4, 3, 3, 3>>

\* The form with every radio on the same choice
FormSections(r) ==
    [s \in 1..Len(FormItemCounts) |->
        Section([k \in 1..FormItemCounts[s] |-> r])]

Info(project, inspector) ==
    [project |-> project, date |-> "2024-01-01", inspector |-> inspector,
     weather |-> "sunny", status |-> "active"]

SectionSet == { Section(rs) : rs \in SeqsUpTo(Results, MaxItems) }

FreshStreams(phs) == [i \in 1..Len(phs) |-> 0]

InitCommon ==
    /\ pos = FreshStreams(photos)
    /\ pdf_doc = None
    /\ html_doc = None
    /\ calls = <<>>
    /\ ui = <<>>

\* A session of the app: the widgets as the user has filled them in
Init ==
    /\ base_info \in { Info(pr, ins) : pr \in {"a", "<b>"}, ins \in {"", "Alice"} }
    /\ sections_data \in { FormSections(r) : r \in Results }
    /\ photos \in SeqsUpTo(PhotoBlobs, MaxUploads)
    /\ captions \in [1..Len(photos) -> Texts]              \* line 316
    /\ HAS_FONT \in BOOLEAN
    /\ InitCommon

\* Direct calls of the generators: any section list, no photos
InitTable ==
    /\ base_info = Info("a", "Alice")
    /\ sections_data \in SeqsUpTo(SectionSet, MaxSections)
    /\ photos = <<>>
    /\ captions = <<>>
    /\ HAS_FONT \in BOOLEAN
    /\ InitCommon

\* Direct calls of the generators: any photo list and caption list
InitPhotos ==
    /\ base_info = Info("a", "Alice")
    /\ sections_data = <<Section(<<"fuhe">>)>>
    /\ photos \in SeqsUpTo(PhotoBlobs, MaxPhotos)
    /\ captions \in SeqsUpTo(Texts, MaxCaptions)
    /\ HAS_FONT = TRUE
    /\ InitCommon

\* Direct calls of the generators: one decodable photo of any size
InitScale ==
    /\ base_info = Info("a", "Alice")
    /\ sections_data = <<Section(<<"fuhe">>)>>
    /\ photos \in { <<Blob(1, w, h, "RGB", TRUE, TRUE)>> :
                      w \in 1..MaxDim, h \in 1..MaxDim }
    /\ captions \in SeqsUpTo({"a"}, 1)
    /\ HAS_FONT = TRUE
    /\ InitCommon

---------------------------------------------------------------------------
(* Actions *)

CallPdf ==
    /\ pdf_doc' = generate_pdf_report(base_info, sections_data, photos,
                                      captions, HAS_FONT)
    /\ pos' = PdfStreams(base_info, sections_data, photos, captions, pos)
    /\ calls' = <<"generate_pdf_report">>
    /\ UNCHANGED <<HAS_FONT, base_info, sections_data, photos, captions,
                   html_doc, ui>>

CallHtml ==
    /\ html_doc' = generate_html_report(base_info, sections_data, photos,
                                        captions, pos)
    /\ pos' = HtmlStreams(photos, pos)
    /\ calls' = <<"generate_html_report">>
    /\ UNCHANGED <<HAS_FONT, base_info, sections_data, photos, captions,
                   pdf_doc, ui>>

\* The user presses the form's submit button: one script run, submitted = True
Submit ==
    LET run == submitted(base_info, sections_data, photos, captions, pos,
                         HAS_FONT)
    IN  /\ ui' = run.ui
        /\ calls' = run.calls
        /\ pdf_doc' = IF run.pdf.status = "none" THEN pdf_doc ELSE run.pdf
        /\ html_doc' = IF run.html.status = "none" THEN html_doc ELSE run.html
        /\ pos' = run.pos
        /\ UNCHANGED <<HAS_FONT, base_info, sections_data, photos, captions>>

\* The user edits the sidebar's inspector field (line 282): a script run
\* with submitted = False, which shows nothing of the handler
EditInspector(name) ==
    /\ name # base_info.inspector
    /\ base_info' = [base_info EXCEPT !.inspector = name]
    /\ ui' = <<>>
    /\ calls' = <<>>
    /\ UNCHANGED <<HAS_FONT, sections_data, photos, captions, pos,
                   pdf_doc, html_doc>>

Next == Submit \/ \E name \in {"", "Alice"} : EditInspector(name)

NextGen == CallPdf \/ CallHtml

Spec == Init /\ [][Next]_vars

SpecTable == InitTable /\ [][NextGen]_vars

SpecPhotos == InitPhotos /\ [][NextGen]_vars

SpecScale == InitScale /\ [][NextGen]_vars

---------------------------------------------------------------------------
(* Reading a document *)

RECURSIVE Flatten(_)
Flatten(rows) == IF rows = <<>> THEN <<>> ELSE Head(rows) \o Flatten(Tail(rows))

IsPhotoCell(c) == c.kind = "cell"

\* The photo cells of a PDF document, row by row
PdfCells(doc) == SelectSeq(Flatten(doc.photo_rows), IsPhotoCell)

\* The input index (from 1) a PDF photo cell was rendered from, as its
\* caption paragraph numbers it
CellIndex(c) == c.caption.text[2]

CellCaption(c) == c.caption.text[3]

ExpectedCaption(i) == IF i <= Len(captions) THEN captions[i] ELSE ""

PdfReturned == pdf_doc.status = "returned"

HtmlReturned == html_doc.status = "returned"

\* The cells of the HTML photo grid
HtmlCells(doc) == IF doc.img_html = <<>> THEN <<>> ELSE doc.img_html[1].cells

---------------------------------------------------------------------------
(* C1: in both generators the rendered photos appear in input order, and   *)
(* the photo rendered from input index i carries captions[i] when there is *)
(* one and the empty string otherwise, also after skipped photos; a short  *)
(* caption list raises nothing.                                            *)
C1_PhotoOrderAndCaptions ==
    /\ pdf_doc.status # "raised"
    /\ html_doc.status # "raised"
    /\ PdfReturned =>
         LET cells == PdfCells(pdf_doc.doc)
         IN  /\ \A j \in 1..Len(cells) :
                  /\ CellIndex(cells[j]) \in 1..Len(photos)
                  /\ cells[j].image.src.pixels = photos[CellIndex(cells[j])].id
                  /\ CellCaption(cells[j]) = ExpectedCaption(CellIndex(cells[j]))
             /\ \A j, k \in 1..Len(cells) :
                  j < k => CellIndex(cells[j]) < CellIndex(cells[k])
    /\ HtmlReturned =>
         LET cells == HtmlCells(html_doc.doc)
         IN  /\ Len(cells) = Len(photos)
             /\ \A i \in 1..Len(cells) :
                  /\ cells[i].src = b64encode(photos[i].data)
                  /\ cells[i].cap = ExpectedCaption(i)

\* Both generators returned; the PDF skipped a photo and then rendered one
\* that has no caption of its own
C1_Witness ==
    /\ PdfReturned /\ HtmlReturned
    /\ Len(captions) >= 1 /\ captions[1] = "a"
    /\ \E j \in 1..Len(PdfCells(pdf_doc.doc)) :
         LET c == PdfCells(pdf_doc.doc)[j]
         IN  /\ CellIndex(c) > Len(captions)
             /\ CellIndex(c) > j
             /\ CellCaption(c) = ""

---------------------------------------------------------------------------
RECURSIVE Items(_)
\* The items of a section list, in order
Items(sections) ==
    IF sections = <<>> THEN <<>> ELSE Head(sections) \o Items(Tail(sections))

IsPdfItemRow(row) == row[2].kind = "Paragraph"

IsHtmlItemRow(row) == row.kind = "item"

(* C2: the result cell of an item carries the fail marker (fail_style in   *)
(* the PDF, color red in the HTML) exactly when the item's result is the   *)
(* fail value.                                                             *)
C2_FailMarkerIffFail ==
    /\ PdfReturned =>
         LET rows == SelectSeq(Tail(pdf_doc.doc.table_data), IsPdfItemRow)
             items == Items(sections_data)
         IN  /\ Len(rows) = Len(items)
             /\ \A j \in 1..Len(rows) :
                  (rows[j][2].style = "fail_style")
                     <=> (items[j].result = "bufuhe")
    /\ HtmlReturned =>
         LET rows == SelectSeq(html_doc.doc.rows_html, IsHtmlItemRow)
             items == Items(sections_data)
         IN  /\ Len(rows) = Len(items)
             /\ \A j \in 1..Len(rows) :
                  (rows[j].color = "red") <=> (items[j].result = "bufuhe")

\* Both documents hold a fail, a pass and a not-applicable item
C2_Witness ==
    /\ PdfReturned /\ HtmlReturned
    /\ \A r \in Results :
         \E j \in 1..Len(Items(sections_data)) :
            Items(sections_data)[j].result = r

---------------------------------------------------------------------------
\* The rows (from 0) a directive of the main table's style addresses
DirectiveRows(doc, cmd, arg) ==
    { doc.main_style[j].from[2] :
        j \in { k \in 1..Len(doc.main_style) :
                 /\ doc.main_style[k].cmd = cmd
                 /\ doc.main_style[k].arg = arg
                 /\ doc.main_style[k].from[1] = 0
                 /\ doc.main_style[k].to[1] = 1
                 /\ doc.main_style[k].to[2] = doc.main_style[k].from[2] } }

\* The rows (from 0) of table_data that are section title rows: the only
\* rows whose second cell is the empty string
TitleRows(doc) ==
    { r \in 0..(Len(doc.table_data) - 1) : doc.table_data[r + 1][2].kind = "str" }

(* C9: the rows of the main table that get the SPAN and the grey           *)
(* background are exactly the rows where a section title row was appended; *)
(* no item row and not row 0 is merged.                                    *)
C9_SpanRowsAreTitleRows ==
    PdfReturned =>
      /\ DirectiveRows(pdf_doc.doc, "SPAN", "none") = TitleRows(pdf_doc.doc)
      /\ DirectiveRows(pdf_doc.doc, "BACKGROUND", "lightgrey")
            = TitleRows(pdf_doc.doc)
      /\ 0 \notin DirectiveRows(pdf_doc.doc, "SPAN", "none")
      /\ Cardinality(TitleRows(pdf_doc.doc)) = Len(sections_data)

\* An empty section ahead of a section with items
C9_Witness ==
    /\ PdfReturned
    /\ Len(sections_data) >= 2
    /\ \E i \in 1..(Len(sections_data) - 1) :
         /\ Len(sections_data[i]) = 0
         /\ Len(sections_data[i + 1]) > 0

---------------------------------------------------------------------------
HasKind(img_html, kind) == \E j \in 1..Len(img_html) : img_html[j].kind = kind

(* C3: with an empty photo list the HTML document holds a "no photos"      *)
(* notice in place of the photo grid; with a non-empty list it holds the   *)
(* grid and no notice.                                                     *)
C3_NoPhotosPlaceholder ==
    HtmlReturned =>
      /\ photos = <<>> => /\ HasKind(html_doc.doc.img_html, "notice")
                          /\ ~HasKind(html_doc.doc.img_html, "grid")
      /\ photos # <<>> => /\ HasKind(html_doc.doc.img_html, "grid")
                          /\ ~HasKind(html_doc.doc.img_html, "notice")

---------------------------------------------------------------------------
(* C4: a generator called again with the same inputs and the same photo    *)
(* stream objects, after any calls of either generator, returns a document *)
(* with the same content: once a generator has returned, a later call      *)
(* never changes its result.                                               *)
C4_Idempotent ==
    [][ /\ pdf_doc.status # "none" => pdf_doc' = pdf_doc
        /\ html_doc.status # "none" => html_doc' = html_doc ]_vars

AllConsumed == \A i \in 1..Len(photos) : pos[i] = Len(photos[i].data)

\* The PDF generator has just run on streams the HTML generator had read
\* to their end, rendering a photo and skipping one
C4_Witness ==
    /\ PdfReturned /\ HtmlReturned
    /\ calls = <<"generate_pdf_report">>
    /\ Len(photos) >= 2
    /\ AllConsumed
    /\ PdfCells(pdf_doc.doc) # <<>>
    /\ Len(PdfCells(pdf_doc.doc)) < Len(photos)

---------------------------------------------------------------------------
\* The photos (by input index, from 1) that decode and re-encode
Decodable == { i \in 1..Len(photos) : photos[i].opens /\ photos[i].loads }

(* C5: whatever photos fail to decode or re-encode, generate_pdf_report    *)
(* returns a document in which each failing photo is omitted and every     *)
(* other photo is rendered.                                                *)
C5_OnlyFailingPhotosOmitted ==
    /\ pdf_doc.status # "raised"
    /\ PdfReturned =>
         { CellIndex(PdfCells(pdf_doc.doc)[j]) :
             j \in 1..Len(PdfCells(pdf_doc.doc)) } = Decodable

---------------------------------------------------------------------------
(* C6: the display size of a photo of positive width and height is at most *)
(* W_max wide and H_max high and has the photo's aspect ratio; when the    *)
(* height at full width would exceed H_max, the height is H_max.           *)
C6_ScaledWithinBox ==
    PdfReturned =>
      \A j \in 1..Len(PdfCells(pdf_doc.doc)) :
        LET c == PdfCells(pdf_doc.doc)[j]
            img == photos[CellIndex(c)]
            width == c.image.width
            height == c.image.height
        IN  /\ width[2] > 0 /\ height[2] > 0
            /\ width[1] > 0 /\ height[1] > 0
            /\ width[1] <= 8 * width[2]
            /\ height[1] <= 10 * height[2]
            /\ width[1] * height[2] * img.h = height[1] * width[2] * img.w
            /\ (8 * img.h > 10 * img.w) => height[1] = 10 * height[2]
            /\ (8 * img.h <= 10 * img.w) => width[1] = 8 * width[2]

\* A rendered photo that is too tall at full width
C6_Witness ==
    /\ PdfReturned
    /\ PdfCells(pdf_doc.doc) # <<>>
    /\ 8 * photos[1].h > 10 * photos[1].w
    /\ photos[1].w > 1

---------------------------------------------------------------------------
\* The photos (by input index, from 1) whose try block runs to its end
Accepted == { i \in 1..Len(photos) : PhotoRaises(photos[i], i - 1, captions) = "none" }

(* C10: every row of the photo table has two cells; the accepted photos    *)
(* fill the rows two by two in the order they were accepted; an odd last   *)
(* photo is followed by one empty cell; no accepted photo is left out.     *)
C10_PhotoTableRectangular ==
    PdfReturned =>
      LET rows == pdf_doc.doc.photo_rows
          n == Cardinality(Accepted)
      IN  /\ \A r \in 1..Len(rows) : Len(rows[r]) = 2
          /\ Len(rows) = (n + 1) \div 2
          /\ \A j \in 1..n :
               LET c == rows[(j + 1) \div 2][2 - (j % 2)]
               IN  /\ c.kind = "cell"
                   /\ CellIndex(c) \in Accepted
                   /\ Cardinality({ i \in Accepted : i <= CellIndex(c) }) = j
          /\ (n % 2 = 1) => rows[Len(rows)][2] = EmptyCell

\* Three photos accepted and one skipped: a full row and a padded row
C10_Witness ==
    /\ PdfReturned
    /\ Len(pdf_doc.doc.photo_rows) = 2
    /\ Cardinality(Accepted) % 2 = 1
    /\ Cardinality(Accepted) < Len(photos)

---------------------------------------------------------------------------
Shows(widget, arg) == \E j \in 1..Len(ui) : ui[j].widget = widget /\ ui[j].arg = arg

Called(fn) == \E j \in 1..Len(calls) : calls[j] = fn

\* The page shows the output of a submit run
SubmitShown == ui # <<>>

(* C7: a submit with a non-empty inspector name generates the HTML report  *)
(* and offers it for download whether the PDF generation returned or       *)
(* raised; a PDF failure is shown as an error of that format only.         *)
C7_HtmlOfferedAlways ==
    (SubmitShown /\ base_info.inspector # "") =>
      /\ Called("generate_pdf_report")
      /\ Called("generate_html_report")
      /\ HtmlReturned
      /\ ui[Len(ui)] = Widget("download_button", "text/html", html_doc)
      /\ pdf_doc.status = "raised" =>
           /\ Shows("error", "pdf_error")
           /\ ~Shows("download_button", "application/pdf")
      /\ pdf_doc.status = "returned" =>
           /\ Shows("download_button", "application/pdf")
           /\ ~Shows("error", "pdf_error")
      /\ ~Shows("exception", "uncaught")

\* A submit whose PDF generation raised, with the HTML download on the page
C7_Witness ==
    /\ SubmitShown
    /\ base_info.inspector # ""
    /\ pdf_doc.status = "raised"
    /\ Shows("error", "pdf_error")
    /\ Shows("download_button", "text/html")

---------------------------------------------------------------------------
(* C8: a submit with an empty inspector name shows a validation error,     *)
(* calls neither generator and offers no download.                         *)
C8_EmptyInspectorRejected ==
    (SubmitShown /\ base_info.inspector = "") =>
      /\ ui = <<Widget("error", "inspector_missing", None)>>
      /\ calls = <<>>
      /\ ~Shows("download_button", "application/pdf")
      /\ ~Shows("download_button", "text/html")

\* A submit with an empty inspector name and photos uploaded
C8_Witness ==
    /\ SubmitShown
    /\ base_info.inspector = ""
    /\ photos # <<>>
    /\ Shows("error", "inspector_missing")

============================================================================
